---- MODULE Spec2Model ----
(***************************************************************************)
(* Model of pyRigolWFM's decoder (src/wfm.py): the description-driven      *)
(* binary record reader _parseFile and the waveform decoder parseRigolWFM. *)
(* The input is a byte stream; the decoder is stepped field by field and   *)
(* then through format-revision detection, payload reading and the         *)
(* interpretation of the header.  Exceptions are modelled by the name of   *)
(* the Python exception class that leaves parseRigolWFM.                   *)
(*                                                                         *)
(* Number representation.  Integers of at most 32 bits are decoded to      *)
(* their value.  32-bit floats ("f") and 64-bit integers ("q") are kept as *)
(* their little-endian byte tuple; float comparisons and the zero test are *)
(* computed on the IEEE-754 bit fields of that tuple.                      *)
(***************************************************************************)
EXTENDS Integers, Sequences, FiniteSets, TLC

\* ------------------------------------------------------------------------
\* Bounds of the explored inputs
\* ------------------------------------------------------------------------
MaxPoints == 2

\* ------------------------------------------------------------------------
\* struct: sizes and little-endian decoding
\* ------------------------------------------------------------------------
Zeros(n) == [i \in 1..n |-> 0]

BlockLen(t) ==
  CASE t = "1s" -> 1 [] t = "2s" -> 2 [] t = "3s" -> 3 [] t = "4s" -> 4
    [] t = "9s" -> 9 [] t = "16s" -> 16

IsBlock(t) == t \in {"1s", "2s", "3s", "4s", "9s", "16s"}

\* struct.calcsize("<" + t)
calcsize(t) ==
  CASE t = "B" -> 1
    [] t \in {"H", "h"} -> 2
    [] t \in {"I", "i", "f"} -> 4
    [] t = "q" -> 8
    [] OTHER -> BlockLen(t)

RECURSIVE LEValue(_)
\* unsigned little-endian value of a byte tuple
LEValue(b) == IF Len(b) = 0 THEN 0 ELSE Head(b) + 256 * LEValue(Tail(b))

\* two's complement little-endian value of a byte tuple
LESigned(b) ==
  LET n  == Len(b)
      hi == IF b[n] >= 128 THEN b[n] - 256 ELSE b[n]
  IN  LEValue(SubSeq(b, 1, n - 1) \o <<hi>>)

\* struct.unpack("<" + t, tmp)[0]
unpack(t, tmp) ==
  CASE t \in {"B", "H", "I"} -> LEValue(tmp)
    [] t \in {"h", "i"} -> LESigned(tmp)
    [] OTHER -> tmp

\* IEEE-754 binary32 fields of a little-endian byte tuple
FloatNegative(b) == b[4] >= 128
FloatExponent(b) == (b[4] % 128) * 2 + (b[3] \div 128)
FloatFractionZero(b) == (b[3] % 128) = 0 /\ b[2] = 0 /\ b[1] = 0
FloatIsNaN(b) == FloatExponent(b) = 255 /\ ~FloatFractionZero(b)
FloatIsZero(b) == FloatExponent(b) = 0 /\ FloatFractionZero(b)

\* eval("value %s match" % condition), for the operand types the
\* descriptions use: a float is only ever compared with the literal 0
Compare(t, value, condition, match) ==
  IF t = "f"
  THEN CASE condition = ">=" -> ~FloatIsNaN(value) /\ (FloatIsZero(value) \/ ~FloatNegative(value))
         [] condition = ">"  -> ~FloatIsNaN(value) /\ ~FloatIsZero(value) /\ ~FloatNegative(value)
         [] condition = "<=" -> ~FloatIsNaN(value) /\ (FloatIsZero(value) \/ FloatNegative(value))
         [] condition = "<"  -> ~FloatIsNaN(value) /\ ~FloatIsZero(value) /\ FloatNegative(value)
         [] condition = "==" -> FloatIsZero(value)
  ELSE CASE condition = "==" -> value = match
         [] condition = "in" -> value \in match
         [] condition = ">=" -> value >= match
         [] condition = "<=" -> value <= match
         [] condition = ">"  -> value > match
         [] condition = "<"  -> value < match

\* ------------------------------------------------------------------------
\* Record descriptions of parseRigolWFM
\* ------------------------------------------------------------------------
None == <<>>

F(field, t, test) == [field |-> field, t |-> t, test |-> test]

chan_header == <<
  F("scaleD",   "i",  None),
  F("shiftD",   "h",  None),
  F("padding1", "2s", <<"require", "==", Zeros(2)>>),
  F("probeAtt", "f",  <<"require", ">", 0>>),
  F("invertD",  "B",  <<"require", "in", {0, 1}>>),
  F("written",  "B",  <<"require", "in", {0, 1}>>),
  F("invertM",  "B",  <<"require", "in", {0, 1}>>),
  F("padding2", "1s", <<"require", "==", Zeros(1)>>),
  F("scaleM",   "i",  None),
  F("shiftM",   "h",  None) >>

time_header == <<
  F("scaleD",  "q", None),
  F("delayD",  "q", None),
  F("smpRate", "f", <<"require", ">=", 0>>),
  F("scaleM",  "q", None),
  F("delayM",  "q", None) >>

trigger_header == <<
  F("mode",       "B",  None),
  F("source",     "B",  None),
  F("coupling",   "B",  None),
  F("sweep",      "B",  None),
  F("padding1",   "1s", <<"require", "==", Zeros(1)>>),
  F("sens",       "f",  None),
  F("holdoff",    "f",  None),
  F("level",      "f",  None),
  F("direct",     "B",  None),
  F("pulseType",  "B",  None),
  F("padding2",   "2s", <<"require", "==", Zeros(2)>>),
  F("PulseWidth", "f",  None),
  F("slopeType",  "B",  None),
  F("padding3",   "3s", <<"require", "==", Zeros(3)>>),
  F("lower",      "f",  None),
  F("slopeWid",   "f",  None),
  F("videoPol",   "B",  None),
  F("videoSync",  "B",  None),
  F("videoStd",   "B",  None) >>

logic_analizer_channel == <<
  F("written",         "B",   <<"require", "in", {0, 1}>>),
  F("activeCh",        "B",   <<"require", "in", 0..15>>),
  F("enabledChannels", "H",   None),
  F("position",        "16s", None),
  F("group8to15size",  "B",   <<"require", "in", {7, 15}>>),
  F("group0to7size",   "B",   <<"require", "in", {7, 15}>>) >>

wfm_header == <<
  F("magic",       "H",      <<"require", "==", 42405>>),
  F("padding1",    "2s",     <<"require", "==", Zeros(2)>>),
  F("unused1",     "4s",     <<"expect", "==", Zeros(4)>>),
  F("unused2",     "4s",     <<"expect", "==", Zeros(4)>>),
  F("unused3",     "4s",     <<"expect", "==", Zeros(4)>>),
  F("adcMode",     "B",      <<"expect", "in", {0, 1}>>),
  F("padding2",    "3s",     <<"require", "==", Zeros(3)>>),
  F("rollStop",    "I",      <<"expect", "==", 0>>),
  F("unused4",     "4s",     <<"expect", "==", Zeros(4)>>),
  F("points1",     "I",      None),
  F("activeCh",    "B",      <<"require", "in", 1..5>>),
  F("padding3",    "3s",     <<"require", "==", Zeros(3)>>),
  F("channel1",    "nested", chan_header),
  F("padding4",    "2s",     <<"require", "==", Zeros(2)>>),
  F("channel2",    "nested", chan_header),
  F("timeDelayed", "B",      None),
  F("padding5",    "1s",     <<"require", "==", Zeros(1)>>),
  F("time1",       "nested", time_header),
  F("channelLA",   "nested", logic_analizer_channel),
  F("trigMode",    "B",      None),
  F("trigHdr1",    "nested", trigger_header),
  F("trigHdr2",    "nested", trigger_header),
  F("fooG",        "9s",     <<"expect", "==", Zeros(9)>>),
  F("points2",     "i",      None),
  F("time2",       "nested", time_header) >>

wfm_header_append_v2 == <<
  F("laSmpRate", "f", <<"require", ">=", 0>>) >>

\* ------------------------------------------------------------------------
\* _parseFile: the order in which the recursion visits the scalar fields.
\* Each visited field carries its path and the strict flag of the call
\* that reads it: the recursive call of line 49 passes `leading` only, so
\* a nested record is read with the default strict = True.
\* ------------------------------------------------------------------------
RECURSIVE Visit(_, _, _, _)
Visit(description, i, path, isNested) ==
  IF i > Len(description) THEN <<>>
  ELSE LET e == description[i]
           here == IF e.t = "nested"
                   THEN Visit(e.test, 1, path \o <<e.field>>, TRUE)
                   ELSE << [path |-> path \o <<e.field>>, t |-> e.t,
                            test |-> e.test, nested |-> isNested] >>
       IN  here \o Visit(description, i + 1, path, isNested)

HeaderFields == Visit(wfm_header, 1, <<>>, FALSE)
AppendFields == Visit(wfm_header_append_v2, 1, <<>>, FALSE)

RECURSIVE SumSizes(_, _)
SumSizes(fields, n) ==
  IF n = 0 THEN 0 ELSE calcsize(fields[n].t) + SumSizes(fields, n - 1)

\* offset of field k of the header, and the size of the whole header
Offsets == [k \in 1..Len(HeaderFields) |-> SumSizes(HeaderFields, k - 1)]
Offset(k) == Offsets[k]
HeaderSize == SumSizes(HeaderFields, Len(HeaderFields))

\* ------------------------------------------------------------------------
\* State
\* ------------------------------------------------------------------------
VARIABLES
  descriptionName, \* which description the running _parseFile call was given
  first,       \* <<>>, or the outcome of an earlier strict call on this stream
  file,        \* the bytes of the stream f
  strict,      \* the strict argument of parseRigolWFM
  pc,          \* position of the decoder in parseRigolWFM
  pos,         \* f.tell()
  idx,         \* index of the next field _parseFile reads
  fileHdr,     \* decoded fields, by path
  points,      \* fileHdr["points"]
  dataIdx,     \* dataIdx of the payload loop
  channel,     \* loop variable of the two `for channel in range(2)` loops
  data,        \* the 'data' entries added to the channel headers
  scopeData,   \* the result under construction
  result,      \* <<>> until parseRigolWFM returns, then <<scopeData>>
  err          \* class of the exception that left parseRigolWFM, or ""

vars == <<descriptionName, first, file, strict, pc, pos, idx, fileHdr, points, dataIdx, channel,
          data, scopeData, result, err>>

Empty == [x \in {} |-> 0]

Min(a, b) == IF a < b THEN a ELSE b

\* ------------------------------------------------------------------------
\* _parseFile, one scalar field (lines 51-67) read at cursor p
\* ------------------------------------------------------------------------
\* variant: every violated rule raises, whatever the mode
RuleRaises_IgnoringStrict(scope, matches, callStrict) == ~matches

\* variant: `require` rules are relaxed by lenient mode as well
RuleRaises_RequireLenient(scope, matches, callStrict) == callStrict /\ ~matches

\* variant: `expect` rules are enforced by lenient mode instead of strict
RuleRaises_ExpectWhenLenient(scope, matches, callStrict) ==
  \/ ~matches /\ scope = "require"
  \/ ~callStrict /\ ~matches /\ scope = "expect"

\* lines 63-67: does the rule outcome raise FormatError
RuleRaises(scope, matches, callStrict) ==
  \/ ~matches /\ scope = "require"
  \/ callStrict /\ ~matches /\ scope = "expect"

parseField(f, stream, p, callStrict) ==
  LET n       == calcsize(f.t)
      tmp     == SubSeq(stream, p + 1, Min(p + n, Len(stream)))
      value   == unpack(f.t, tmp)
      matches == Compare(f.t, value, f.test[2], f.test[3])
  IN  IF Len(tmp) < n
      THEN [raised |-> "struct.error", pos |-> p + Len(tmp), value |-> None]
      ELSE IF f.test # None /\ RuleRaises(f.test[1], matches, callStrict)
      THEN [raised |-> "FormatError", pos |-> p + n, value |-> value]
      ELSE [raised |-> "", pos |-> p + n, value |-> value]

\* strict flag in force where field f is read
StrictAt(f) == IF f.nested THEN TRUE ELSE strict

Raise(e) ==
  /\ pc' = "raised"
  /\ err' = e
  /\ result' = <<>>

\* line 198: fileHdr = _parseFile(f, wfm_header, strict=strict)
ReadHeaderField ==
  /\ pc = "header"
  /\ LET f == HeaderFields[idx]
         r == parseField(f, file, pos, StrictAt(f))
     IN  /\ pos' = r.pos
         /\ IF r.raised # ""
            THEN /\ Raise(r.raised)
                 /\ UNCHANGED <<idx, fileHdr>>
            ELSE /\ fileHdr' = (f.path :> r.value) @@ fileHdr
                 /\ idx' = idx + 1
                 /\ pc' = IF idx = Len(HeaderFields) THEN "detect" ELSE "header"
                 /\ UNCHANGED <<err, result>>
  /\ UNCHANGED <<descriptionName, first, file, strict, points, dataIdx, channel, data, scopeData>>

\* lines 207-209
Points(hdr) ==
  LET p1 == hdr[<<"points1">>]
      p2 == hdr[<<"points2">>]
  IN  IF hdr[<<"channel2", "written">>] # 0 /\ p2 = 0 THEN <<p1, p1>> ELSE <<p1, p2>>

ChannelRec(c) == IF c = 0 THEN "channel1" ELSE "channel2"

\* variant: the logic analyzer counted one byte a sample
TotalPointBytes_LAOneByte(hdr, pts) ==
    (IF hdr[<<"channel1", "written">>] # 0 THEN pts[1] * calcsize("B") ELSE 0)
  + (IF hdr[<<"channel2", "written">>] # 0 THEN pts[2] * calcsize("B") ELSE 0)
  + (IF hdr[<<"channelLA", "written">>] # 0 THEN pts[1] * calcsize("B") ELSE 0)

\* lines 211-218
TotalPointBytes(hdr, pts) ==
    (IF hdr[<<"channel1", "written">>] # 0 THEN pts[1] * calcsize("B") ELSE 0)
  + (IF hdr[<<"channel2", "written">>] # 0 THEN pts[2] * calcsize("B") ELSE 0)
  + (IF hdr[<<"channelLA", "written">>] # 0 THEN pts[1] * calcsize("H") ELSE 0)

\* lines 224-231
BytesMissing(stream, filePosition, hdr) ==
  (Len(stream) - filePosition) - TotalPointBytes(hdr, Points(hdr))

\* lines 201-239: point counts, payload size and the format revision
DetectVersion ==
  /\ pc = "detect"
  /\ points' = Points(fileHdr)
  /\ LET bytesMissing == BytesMissing(file, pos, fileHdr)
     IN  IF bytesMissing = 0
         THEN /\ pc' = "data"
              /\ UNCHANGED <<err, result>>
         ELSE IF bytesMissing = calcsize("f")
         THEN /\ pc' = "append"
              /\ UNCHANGED <<err, result>>
         ELSE Raise("FormatError")
  /\ descriptionName' = IF pc' = "append" THEN "wfm_header_append_v2"
                    ELSE descriptionName
  /\ idx' = 1
  /\ UNCHANGED <<first, file, strict, pos, fileHdr, dataIdx, channel, data,
                 scopeData>>

\* lines 236-237: _parseFile(f, wfm_header_append_v2, strict=strict) and update
ReadAppendField ==
  /\ pc = "append"
  /\ LET f == AppendFields[idx]
         r == parseField(f, file, pos, StrictAt(f))
     IN  /\ pos' = r.pos
         /\ IF r.raised # ""
            THEN /\ Raise(r.raised)
                 /\ UNCHANGED <<idx, fileHdr>>
            ELSE /\ fileHdr' = (f.path :> r.value) @@ fileHdr
                 /\ idx' = idx + 1
                 /\ pc' = IF idx = Len(AppendFields) THEN "data" ELSE "append"
                 /\ UNCHANGED <<err, result>>
  /\ UNCHANGED <<descriptionName, first, file, strict, points, dataIdx, channel, data, scopeData>>

\* array.array(typecode).fromfile(f, n) at cursor p, itemsize bytes an item
fromfile(stream, p, n, itemsize) ==
  LET nbytes == n * itemsize
      b      == SubSeq(stream, p + 1, Min(p + nbytes, Len(stream)))
      items  == [k \in 1..(Len(b) \div itemsize) |->
                   LEValue(SubSeq(b, (k - 1) * itemsize + 1, k * itemsize))]
  IN  IF n < 0
      THEN [raised |-> "ValueError", pos |-> p, items |-> <<>>]
      ELSE IF Len(b) % itemsize # 0
      THEN [raised |-> "ValueError", pos |-> p + Len(b), items |-> <<>>]
      ELSE IF Len(b) # nbytes
      THEN [raised |-> "EOFError", pos |-> p + Len(b), items |-> items]
      ELSE [raised |-> "", pos |-> p + nbytes, items |-> items]

\* lines 246-254: one iteration of the analog payload loop
ReadChannelData ==
  /\ pc = "data"
  /\ IF fileHdr[<<ChannelRec(channel), "written">>] # 0
     THEN LET nBytes == points[dataIdx + 1] * calcsize("B")
              r      == fromfile(file, pos, nBytes, 1)
          IN  /\ pos' = r.pos
              /\ IF r.raised # ""
                 THEN /\ Raise(r.raised)
                      /\ UNCHANGED <<data, dataIdx, channel>>
                 ELSE /\ data' = (ChannelRec(channel) :> r.items) @@ data
                      /\ dataIdx' = dataIdx + 1
                      /\ channel' = channel + 1
                      /\ pc' = IF channel = 1 THEN "dataLA" ELSE "data"
                      /\ UNCHANGED <<err, result>>
     ELSE /\ channel' = channel + 1
          /\ pc' = IF channel = 1 THEN "dataLA" ELSE "data"
          /\ UNCHANGED <<pos, data, dataIdx, err, result>>
  /\ UNCHANGED <<descriptionName, first, file, strict, idx, fileHdr, points, scopeData>>

\* lines 256-263: the logic analyzer payload
ReadLAData ==
  /\ pc = "dataLA"
  /\ IF fileHdr[<<"channelLA", "written">>] # 0
     THEN LET nBytes == points[1] * calcsize("B")
              r      == fromfile(file, pos, nBytes, calcsize("H"))
          IN  /\ pos' = r.pos
              /\ IF r.raised # ""
                 THEN /\ Raise(r.raised)
                      /\ UNCHANGED data
                 ELSE /\ data' = ("channelLA" :> r.items) @@ data
                      /\ pc' = "interpret"
                      /\ UNCHANGED <<err, result>>
     ELSE /\ pc' = "interpret"
          /\ UNCHANGED <<pos, data, err, result>>
  /\ UNCHANGED <<descriptionName, first, file, strict, idx, fileHdr, points, dataIdx, channel, scopeData>>

\* ------------------------------------------------------------------------
\* Interpretation of the header (lines 268-425)
\* ------------------------------------------------------------------------
\* tuple[i] of Python for an index i >= 0
InRange(tuple, i) == i < Len(tuple)
Item(tuple, i) == tuple[i + 1]

\* variant: the slice keeps what follows the first stop samples
Prefix_Rest(s, stop) == SubSeq(s, Min(stop, Len(s)) + 1, Len(s))

\* sequence[:stop] of Python for stop >= 0
Prefix(s, stop) == SubSeq(s, 1, Min(stop, Len(s)))

\* bool(value & (1 << p))
Bit(value, p) == (value \div (2 ^ p)) % 2 = 1

TrigModes     == <<"Edge", "Pulse", "Slope", "Video", "Alternate">>
TrigSources   == <<"CH1", "CH2", "EXT", "AC Line">>
TrigCouplings == <<"DC", "LF Reject", "HF Reject", "AC">>
TrigSweeps    == <<"Auto", "Normal", "Single">>
EdgeDirections == <<"RISE", "FALL", "BOTH">>
PulseTypes    == <<"POS >", "POS <", "POS =", "NEG >", "NEG <", "NEG =">>
SlopeTypes    == <<"RISE >", "RISE <", "RISE =", "FALL >", "FALL <", "FALL =">>
VideoPols     == <<"POS", "NEG">>
VideoSyncs    == <<"All Lines", "Line Num", "Odd Field", "Even Field">>
VideoStds     == <<"NTSC", "PAL/SECAM">>

\* lines 278-307; hdr is the decoded file header, rec names the trigger
\* header.  The float fields stay byte tuples; the derived slope is the
\* term of line 300, or "inf" when slopeWidth is (plus or minus) zero.
parseTriggerHdr(hdr, rec) ==
  LET fld(name) == hdr[<<rec, name>>]
      mode == fld("mode")
      modeName == Item(TrigModes, mode)
      common == [mode        |-> modeName,
                 source      |-> Item(TrigSources, fld("source")),
                 coupling    |-> Item(TrigCouplings, fld("coupling")),
                 sweep       |-> Item(TrigSweeps, fld("sweep")),
                 holdoff     |-> fld("holdoff"),
                 sensitivity |-> fld("sens"),
                 level       |-> fld("level")]
      edge  == [edgeDirection |-> Item(EdgeDirections, fld("direct"))]
      pulse == [pulseType  |-> Item(PulseTypes, fld("pulseType")),
                pulseWidth |-> fld("PulseWidth")]
      slope == [slopeType       |-> Item(SlopeTypes, fld("slopeType")),
                slopeLowerLevel |-> fld("lower"),
                slopeWidth      |-> fld("slopeWid"),
                slope           |-> IF FloatIsZero(fld("slopeWid")) THEN <<"inf">>
                                    ELSE <<"(level-lower)/width", fld("level"),
                                           fld("lower"), fld("slopeWid")>>]
      video == [videoPol  |-> Item(VideoPols, fld("videoPol")),
                videoSync |-> Item(VideoSyncs, fld("videoSync")),
                videoStd  |-> Item(VideoStds, fld("videoStd"))]
      indexError ==
        \/ ~InRange(TrigModes, mode)
        \/ ~InRange(TrigSources, fld("source"))
        \/ ~InRange(TrigCouplings, fld("coupling"))
        \/ ~InRange(TrigSweeps, fld("sweep"))
        \/ (modeName = "Edge"  /\ ~InRange(EdgeDirections, fld("direct")))
        \/ (modeName = "Pulse" /\ ~InRange(PulseTypes, fld("pulseType")))
        \/ (modeName = "Slope" /\ ~InRange(SlopeTypes, fld("slopeType")))
        \/ (modeName = "Video" /\ (\/ ~InRange(VideoPols, fld("videoPol"))
                                   \/ ~InRange(VideoSyncs, fld("videoSync"))
                                   \/ ~InRange(VideoStds, fld("videoStd"))))
  IN  IF indexError
      THEN [raised |-> "IndexError", trgDict |-> Empty]
      ELSE [raised |-> "",
            trgDict |-> CASE modeName = "Edge"  -> edge @@ common
                          [] modeName = "Pulse" -> pulse @@ common
                          [] modeName = "Slope" -> slope @@ common
                          [] modeName = "Video" -> video @@ common
                          [] OTHER -> common]

\* lines 268-276: general information and the trigger mode consistency
Interpret ==
  /\ pc = "interpret"
  /\ LET alternateTrigger == fileHdr[<<"trigMode">>] = 4
     IN  /\ scopeData' =
               [activeChannel |-> Item(<<"CH1", "CH2", "REF", "MATH", "LA">>,
                                       fileHdr[<<"activeCh">>] - 1),
                alternateTrigger |-> alternateTrigger]
         /\ IF alternateTrigger \/ fileHdr[<<"trigMode">>] = fileHdr[<<"trigHdr1", "mode">>]
            THEN /\ pc' = "triggers"
                 /\ UNCHANGED <<err, result>>
            ELSE Raise("AssertionError")
  /\ UNCHANGED <<descriptionName, first, file, strict, pos, idx, fileHdr, points, dataIdx, channel, data>>

\* lines 310-313: the trigger description shared by all channels
SharedTriggers ==
  /\ pc = "triggers"
  /\ IF ~scopeData.alternateTrigger
     THEN LET r == parseTriggerHdr(fileHdr, "trigHdr1")
          IN  IF r.raised # ""
              THEN /\ Raise(r.raised)
                   /\ UNCHANGED <<scopeData, channel>>
              ELSE /\ scopeData' = [triggers |-> r.trgDict, channel |-> Empty] @@ scopeData
                   /\ channel' = 0
                   /\ pc' = "channel"
                   /\ UNCHANGED <<err, result>>
     ELSE /\ scopeData' = [channel |-> Empty] @@ scopeData
          /\ channel' = 0
          /\ pc' = "channel"
          /\ UNCHANGED <<err, result>>
  /\ UNCHANGED <<descriptionName, first, file, strict, pos, idx, fileHdr, points, dataIdx, data>>

ChannelName(c) == IF c = 0 THEN "CH1" ELSE "CH2"
ChannelKey(c) == IF c = 0 THEN "1" ELSE "2"
TriggerRec(c) == IF c = 0 THEN "trigHdr1" ELSE "trigHdr2"
TimeRec(c) == IF c = 0 THEN "time1" ELSE "time2"

\* line 347, as a term over the raw sample x
VoltsOf(x) == <<"((125-x)/25.*scale-shift)*sign", x>>
\* lines 363 and 398, as a term over the sample index t
TimeOf(t) == <<"(t-samples/2)*timeScale+timeDelay", t>>

\* lines 315-365: the description of analog channel c, or the exception
channelDict(hdr, c, sData, chData, alternateTrigger) ==
  LET rec == ChannelRec(c)
      enabled == hdr[<<rec, "written">>]
      head == [enabled |-> enabled, channelName |-> ChannelName(c)]
      trg == parseTriggerHdr(hdr, TriggerRec(c))
      triggers == IF alternateTrigger
                  THEN [trg.trgDict EXCEPT !["source"] = ChannelName(c)]
                  ELSE sData.triggers
      raw == IF hdr[<<"rollStop">>] = 0 THEN chData[rec]
             ELSE Prefix(chData[rec], hdr[<<"rollStop">>])
      samples == Len(raw)
      timebase == IF ~alternateTrigger THEN "time1" ELSE TimeRec(c)
      smpRate == hdr[<<timebase, "smpRate">>]
      body == [triggers |-> triggers,
               probeAttenuation |-> hdr[<<rec, "probeAtt">>],
               scale |-> <<"scaleM*1e-6*probeAtt", hdr[<<rec, "scaleM">>], hdr[<<rec, "probeAtt">>]>>,
               shift |-> <<"shiftM/25.*scale", hdr[<<rec, "shiftM">>]>>,
               inverted |-> hdr[<<rec, "invertM">>],
               samples |-> [raw |-> raw,
                            volts |-> [k \in 1..samples |-> VoltsOf(raw[k])],
                            time |-> [k \in 1..samples |-> TimeOf(k - 1)]],
               nsamples |-> samples,
               samplerate |-> smpRate,
               timeScale |-> <<"1./smpRate", smpRate>>,
               timeDelay |-> <<"1e-12*delayM", hdr[<<timebase, "delayM">>]>>,
               timeDiv |-> <<"scaleM*1e-12", hdr[<<timebase, "scaleM">>]>>]
  IN  IF enabled = 0
      THEN [raised |-> "", dict |-> head]
      ELSE IF alternateTrigger /\ trg.raised # ""
      THEN [raised |-> trg.raised, dict |-> head]
      ELSE IF FloatIsZero(smpRate)
      THEN [raised |-> "ZeroDivisionError", dict |-> head]
      ELSE [raised |-> "", dict |-> body @@ head]

\* lines 314-367: one iteration of the analog channel loop
InterpretChannel ==
  /\ pc = "channel"
  /\ LET r == channelDict(fileHdr, channel, scopeData, data, scopeData.alternateTrigger)
     IN  IF r.raised # ""
         THEN /\ Raise(r.raised)
              /\ UNCHANGED <<scopeData, channel>>
         ELSE /\ scopeData' = [scopeData EXCEPT
                                 !.channel = (ChannelKey(channel) :> r.dict) @@ @]
              /\ channel' = channel + 1
              /\ pc' = IF channel = 1 THEN "LA" ELSE "channel"
              /\ UNCHANGED <<err, result>>
  /\ UNCHANGED <<descriptionName, first, file, strict, pos, idx, fileHdr, points, dataIdx, data>>

\* lines 406-409
enabledChannels(mask) ==
  LET RECURSIVE Collect(_)
      Collect(i) == IF i = 16 THEN <<>>
                    ELSE (IF Bit(mask, i) THEN <<i>> ELSE <<>>) \o Collect(i + 1)
  IN  Collect(0)

\* variant: the comparison binds before the mask, (sample & (1<<c > 0))
byChannel_LowBit(raw, enabled) ==
  [c \in {enabled[k] : k \in 1..Len(enabled)} |->
     [k \in 1..Len(raw) |-> Bit(raw[k], 0)]]

\* lines 412-414
byChannel(raw, enabled) ==
  [c \in {enabled[k] : k \in 1..Len(enabled)} |->
     [k \in 1..Len(raw) |-> Bit(raw[k], c)]]

WaveSize(v) == IF v = 7 THEN "big" ELSE "small"

\* lines 379-382
laSampleRate(hdr) ==
  IF <<"laSmpRate">> \in DOMAIN hdr
  THEN hdr[<<"laSmpRate">>]
  ELSE hdr[<<"time1", "smpRate">>]

\* lines 370-419: the description of the logic analyzer channel
channelDictLA(hdr, chData) ==
  LET enabled == hdr[<<"channelLA", "written">>]
      head == [enabled |-> enabled, channelName |-> "CHLA"]
      samplerate == laSampleRate(hdr)
      raw == IF hdr[<<"rollStop">>] = 0 THEN chData["channelLA"]
             ELSE Prefix(chData["channelLA"], hdr[<<"rollStop">>])
      samples == Len(raw)
      activeChannel == hdr[<<"channelLA", "activeCh">>]
      mask == hdr[<<"channelLA", "enabledChannels">>]
      body == [samplerate |-> samplerate,
               samples |-> [raw |-> raw,
                            time |-> [k \in 1..samples |-> TimeOf(k - 1)],
                            byChannel |-> byChannel(raw, enabledChannels(mask))],
               nsamples |-> samples,
               timeScale |-> <<"1./smpRate", samplerate>>,
               timeDelay |-> <<"1e-12*delayM", hdr[<<"time1", "delayM">>]>>,
               timeDiv |-> <<"scaleM*1e-12", hdr[<<"time1", "scaleM">>]>>,
               activeChannel |-> activeChannel,
               enabledChannelsMask |-> [p \in 1..16 |-> Bit(mask, p - 1)],
               enabledChannelsMaskRaw |-> mask,
               enabledChannels |-> enabledChannels(mask),
               waveSizeGroup1 |-> WaveSize(hdr[<<"channelLA", "group0to7size">>]),
               waveSizeGroup2 |-> WaveSize(hdr[<<"channelLA", "group8to15size">>]),
               position |-> hdr[<<"channelLA", "position">>]]
  IN  IF enabled = 0
      THEN [raised |-> "", dict |-> head]
      ELSE IF FloatIsZero(samplerate)
      THEN [raised |-> "ZeroDivisionError", dict |-> head]
      ELSE IF ~Bit(mask, activeChannel)
      THEN [raised |-> "AssertionError", dict |-> head]
      ELSE [raised |-> "", dict |-> body @@ head]

\* lines 369-422
InterpretLA ==
  /\ pc = "LA"
  /\ LET r == channelDictLA(fileHdr, data)
     IN  IF r.raised # ""
         THEN /\ Raise(r.raised)
              /\ UNCHANGED scopeData
         ELSE /\ scopeData' = [scopeData EXCEPT !.channel = ("LA" :> r.dict) @@ @]
              /\ pc' = "return"
              /\ UNCHANGED <<err, result>>
  /\ UNCHANGED <<descriptionName, first, file, strict, pos, idx, fileHdr, points, dataIdx, channel, data>>

\* line 425
Return ==
  /\ pc = "return"
  /\ pc' = "done"
  /\ result' = <<scopeData>>
  /\ UNCHANGED <<descriptionName, first, file, strict, pos, idx, fileHdr, points, dataIdx, channel,
                 data, scopeData, err>>

\* ------------------------------------------------------------------------
\* Input streams.  A stream is the header image of a well-formed capture
\* with some fields overridden, followed by a tail (optional laSmpRate and
\* payload), possibly truncated.
\* ------------------------------------------------------------------------
\* little-endian image of v >= 0 in n bytes
Pack(v, n) == [k \in 1..n |-> (v \div (256 ^ (k - 1))) % 256]
MinusOne(n) == [k \in 1..n |-> 255]

FloatOne      == <<0, 0, 128, 63>>
FloatTwo      == <<0, 0, 0, 64>>
FloatZero     == <<0, 0, 0, 0>>
FloatNegZero  == <<0, 0, 0, 128>>
FloatMinusOne == <<0, 0, 128, 191>>
FloatNaN      == <<0, 0, 192, 127>>

BaseBytes(f) ==
  CASE f.path = <<"magic">> -> <<165, 165>>
    [] f.path = <<"activeCh">> -> <<1>>
    [] f.path \in {<<"channel1", "probeAtt">>, <<"channel2", "probeAtt">>} -> FloatOne
    [] f.path \in {<<"time1", "smpRate">>, <<"time2", "smpRate">>} -> FloatOne
    [] f.path \in {<<"channelLA", "group8to15size">>, <<"channelLA", "group0to7size">>} -> <<7>>
    [] OTHER -> Zeros(calcsize(f.t))

RECURSIVE EncodeFrom(_, _)
EncodeFrom(over, k) ==
  IF k > Len(HeaderFields) THEN <<>>
  ELSE LET f == HeaderFields[k]
       IN  (IF f.path \in DOMAIN over THEN over[f.path] ELSE BaseBytes(f))
           \o EncodeFrom(over, k + 1)

\* header image with the fields of `over` replaced
Encode(over) == EncodeFrom(over, 1)

\* payload filler
Filler(n) == [k \in 1..n |-> (37 * k + 11) % 256]

Written(w1, w2, wLA) ==
  (<<"channel1", "written">> :> <<w1>>) @@ (<<"channel2", "written">> :> <<w2>>)
  @@ (<<"channelLA", "written">> :> <<wLA>>)

\* all three channels written, one point each, probe 0 enabled and active
AllWritten ==
  Written(1, 1, 1) @@ (<<"points1">> :> Pack(1, 4))
  @@ (<<"channelLA", "enabledChannels">> :> Pack(1, 2))
AllWrittenTail == Filler(4)

\* rule-violating images of field f
BadValues(f) ==
  CASE f.path = <<"magic">> -> {<<0, 0>>, <<165, 0>>, <<0, 165>>}
    [] IsBlock(f.t) -> {[Zeros(calcsize(f.t)) EXCEPT ![1] = 1],
                        [Zeros(calcsize(f.t)) EXCEPT ![calcsize(f.t)] = 255]}
    [] f.t = "f" /\ f.test[2] = ">"  -> {FloatZero, FloatNegZero, FloatMinusOne, FloatNaN}
    [] f.t = "f" /\ f.test[2] = ">=" -> {FloatMinusOne, FloatNaN}
    [] f.t = "I" -> {Pack(1, 4), Pack(16777216, 4)}
    [] OTHER -> {Pack(v, 1) : v \in {x \in {0, 2, 6, 16, 255} : x \notin f.test[3]}}

RuleFields == {k \in 1..Len(HeaderFields) : HeaderFields[k].test # None}

\* one rule violated in an otherwise well-formed stream (a v1 and a v2 file),
\* and one rule violated after a violated `expect` rule
ViolationInputs ==
  UNION { { [file |-> Encode((HeaderFields[k].path :> b) @@ ctx[1]) \o ctx[2],
             strict |-> s] :
              b \in BadValues(HeaderFields[k]),
              ctx \in {<<Empty, <<>>>>, <<AllWritten, FloatTwo \o AllWrittenTail>>,
                       <<(<<"unused1">> :> <<0, 0, 0, 7>>), <<>>>>},
              s \in BOOLEAN } : k \in RuleFields }

\* the laSmpRate rule violated or met in an otherwise well-formed stream
AppendInputs ==
  { [file |-> Encode(Written(w1, 0, wLA) @@ AllWritten) \o b \o Filler(w1 + 2 * wLA),
     strict |-> s] :
      b \in {FloatTwo, FloatZero, FloatNegZero, FloatMinusOne, FloatNaN},
      w1 \in {0, 1}, wLA \in {0, 1}, s \in BOOLEAN }

\* a well-formed stream cut short at every length
TruncatedInputs ==
  { [file |-> SubSeq(Encode(over), 1, n), strict |-> s] :
      n \in 0..(HeaderSize - 1), over \in {Empty, AllWritten}, s \in {TRUE} }

\* point counts of the explored streams
PointCounts == 0..MaxPoints
Points2Images == {MinusOne(4)} \cup {Pack(p, 4) : p \in PointCounts}

\* the stream length is the payload size of lines 211-218 plus Delta
Deltas == {-1, 0, 1, 3, 4, 5}

LengthOver(w1, w2, wLA, p1, p2img, roll) ==
  Written(w1, w2, wLA) @@ (<<"points1">> :> Pack(p1, 4)) @@ (<<"points2">> :> p2img)
  @@ (<<"rollStop">> :> Pack(roll, 4)) @@ (<<"channelLA", "enabledChannels">> :> Pack(1, 2))

LengthTail(n) == IF n < 0 THEN <<>>
                 ELSE IF n >= 4 THEN FloatTwo \o Filler(n - 4) ELSE Filler(n)

LengthInputs ==
  { [file |-> LET over == LengthOver(w[1], w[2], w[3], p1, p2img, rs[1])
                  hdr  == [f \in {<<"points1">>, <<"points2">>, <<"channel1", "written">>,
                                  <<"channel2", "written">>, <<"channelLA", "written">>} |->
                             IF f = <<"points2">> THEN LESigned(over[f]) ELSE LEValue(over[f])]
              IN  Encode(over) \o LengthTail(TotalPointBytes(hdr, Points(hdr)) + d),
     strict |-> rs[2]] :
      w \in {0, 1} \X {0, 1} \X {0, 1}, p1 \in PointCounts, p2img \in Points2Images,
      d \in Deltas, rs \in {<<0, TRUE>>, <<0, FALSE>>, <<1, FALSE>>} }

\* trigger mode bytes: the top-level byte against the two trigger headers
TriggerModeInputs ==
  { [file |-> Encode(Written(w[1], w[2], 0) @@ (<<"points1">> :> Pack(1, 4))
                     @@ (<<"trigMode">> :> <<tm>>) @@ (<<"trigHdr1", "mode">> :> <<m1>>)
                     @@ (<<"trigHdr2", "mode">> :> <<m2>>)) \o Filler(w[1] + w[2]),
     strict |-> TRUE] :
      w \in {0, 1} \X {0, 1}, tm \in 0..5, m1 \in 0..5, m2 \in {0, 5} }

\* alternate trigger: every value of the source byte of either header
TriggerSourceInputs ==
  { [file |-> Encode(Written(w[1], w[2], 0) @@ (<<"points1">> :> Pack(1, 4))
                     @@ (<<"trigMode">> :> <<tm>>) @@ (<<"trigHdr1", "mode">> :> <<tm % 4>>)
                     @@ (<<h, "source">> :> <<src>>)) \o Filler(w[1] + w[2]),
     strict |-> TRUE] :
      w \in {<<1, 0>>, <<0, 1>>, <<1, 1>>}, tm \in {4}, h \in {"trigHdr1", "trigHdr2"},
      src \in 0..255 }

\* every enumerant of a trigger header, in range and just out of range
Enumerants == {"source", "coupling", "sweep", "direct", "pulseType", "slopeType",
               "videoPol", "videoSync", "videoStd"}

TriggerEnumInputs ==
  { [file |-> Encode(Written(1, 1, 0) @@ (<<"points1">> :> Pack(1, 4))
                     @@ (<<"trigMode">> :> <<tm>>) @@ (<<h, e>> :> <<v>>)
                     @@ (<<h, "mode">> :> <<m>>)) \o Filler(2),
     strict |-> TRUE] :
      h \in {"trigHdr1", "trigHdr2"}, e \in Enumerants, v \in {1, 2, 3, 5, 6},
      m \in 0..3, tm \in {0, 4} }

\* logic analyzer: probe masks, active probe and 16-bit samples
Masks == {0, 1, 8, 9, 32768, 32777, 65535}
Words == {<<9, 0>>, <<1, 128>>, <<254, 255>>}

RECURSIVE WordSeqs(_)
WordSeqs(n) == IF n = 0 THEN {<<>>}
               ELSE {w \o s : w \in Words, s \in WordSeqs(n - 1)}

LogicInputs ==
  UNION { { [file |-> Encode(Written(0, 0, wLA) @@ (<<"points1">> :> Pack(n * wLA, 4))
                             @@ (<<"channelLA", "activeCh">> :> <<a>>)
                             @@ (<<"channelLA", "enabledChannels">> :> Pack(mask, 2)))
                      \o (IF wLA = 1 THEN ws ELSE <<>>),
             strict |-> TRUE] :
              ws \in WordSeqs(n), wLA \in {0, 1}, a \in {0, 3, 15}, mask \in Masks }
          : n \in PointCounts }

\* sample rates: zero and nonzero, with and without laSmpRate
RateInputs ==
  { [file |-> Encode(Written(w1, 0, wLA) @@ AllWritten @@ (<<"trigMode">> :> <<tm>>)
                     @@ (<<"time1", "smpRate">> :> r1) @@ (<<"time2", "smpRate">> :> r2))
              \o la \o Filler(w1 + 2 * wLA),
     strict |-> TRUE] :
      w1 \in {0, 1}, wLA \in {0, 1}, tm \in {0, 4}, r1 \in {FloatOne, FloatZero},
      r2 \in {FloatOne, FloatNegZero}, la \in {<<>>, FloatTwo, FloatZero} }

Inputs ==
  ViolationInputs \cup AppendInputs \cup TruncatedInputs \cup LengthInputs
  \cup TriggerModeInputs \cup TriggerSourceInputs \cup TriggerEnumInputs
  \cup LogicInputs \cup RateInputs

\* ------------------------------------------------------------------------
\* Specification
\* ------------------------------------------------------------------------
Init ==
  /\ \E in \in Inputs : file = in.file /\ strict = in.strict
  /\ descriptionName = "wfm_header"
  /\ first = <<>>
  /\ pc = "header"
  /\ pos = 0
  /\ idx = 1
  /\ fileHdr = Empty
  /\ points = <<>>
  /\ dataIdx = 0
  /\ channel = 0
  /\ data = Empty
  /\ scopeData = Empty
  /\ result = <<>>
  /\ err = ""

Next ==
  \/ ReadHeaderField
  \/ DetectVersion
  \/ ReadAppendField
  \/ ReadChannelData
  \/ ReadLAData
  \/ Interpret
  \/ SharedTriggers
  \/ InterpretChannel
  \/ InterpretLA
  \/ Return

Spec == Init /\ [][Next]_vars

\* ------------------------------------------------------------------------
\* _parseFile called on its own (lines 37-69): records of single bytes with
\* rules at the top level, one level down and two levels down
\* ------------------------------------------------------------------------
expect_top == <<
  F("a", "B", <<"expect", "==", 0>>),
  F("b", "B", None) >>

expect_nested == <<
  F("a",   "B", None),
  F("sub", "nested", << F("x", "B", <<"expect", "==", 0>>) >>),
  F("b",   "B", None) >>

expect_deep == <<
  F("sub", "nested",
    << F("inner", "nested", << F("x", "B", <<"expect", "in", {0, 1}>>) >>) >>),
  F("b",   "B", <<"require", "<=", 1>>) >>

require_nested == <<
  F("sub", "nested", << F("x", "B", <<"require", "==", 0>>) >>),
  F("a",   "B", <<"expect", "==", 0>>) >>

RecordNames == {"expect_top", "expect_nested", "expect_deep", "require_nested"}

Description(name) ==
  CASE name = "wfm_header"           -> wfm_header
    [] name = "wfm_header_append_v2" -> wfm_header_append_v2
    [] name = "expect_top"           -> expect_top
    [] name = "expect_nested"        -> expect_nested
    [] name = "expect_deep"          -> expect_deep
    [] name = "require_nested"       -> require_nested

RecordFields == [n \in RecordNames |-> Visit(Description(n), 1, <<>>, FALSE)]

RecordBytes == 0..2
RecordStreams ==
  UNION { [1..n -> RecordBytes] : n \in 0..3 }

\* lines 47-69: one field of the record, and the return after the last
ParseFileField ==
  /\ pc = "record"
  /\ LET f == RecordFields[descriptionName][idx]
         r == parseField(f, file, pos, StrictAt(f))
     IN  /\ pos' = r.pos
         /\ IF r.raised # ""
            THEN /\ Raise(r.raised)
                 /\ UNCHANGED <<idx, fileHdr>>
            ELSE /\ fileHdr' = (f.path :> r.value) @@ fileHdr
                 /\ idx' = idx + 1
                 /\ IF idx = Len(RecordFields[descriptionName])
                    THEN pc' = "done" /\ result' = <<fileHdr'>>
                    ELSE pc' = "record" /\ UNCHANGED result
                 /\ UNCHANGED err
  /\ UNCHANGED <<descriptionName, first, file, strict, points, dataIdx, channel,
                 data, scopeData>>

InitReader ==
  /\ descriptionName \in RecordNames
  /\ file \in RecordStreams
  /\ strict \in BOOLEAN
  /\ first = <<>>
  /\ pc = "record"
  /\ pos = 0
  /\ idx = 1
  /\ fileHdr = Empty
  /\ points = <<>>
  /\ dataIdx = 0
  /\ channel = 0
  /\ data = Empty
  /\ scopeData = Empty
  /\ result = <<>>
  /\ err = ""

NextReader == ParseFileField

SpecReader == InitReader /\ [][NextReader]_vars

\* ------------------------------------------------------------------------
\* The same stream decoded twice, as wfmutil.py is run without and then
\* with --forgiving: parseRigolWFM(f, True), then parseRigolWFM(f, False)
\* on the stream rewound
\* ------------------------------------------------------------------------
CallLenient ==
  /\ pc \in {"done", "raised"}
  /\ strict
  /\ first = <<>>
  /\ first' = << [err |-> err, result |-> result] >>
  /\ strict' = FALSE
  /\ descriptionName' = "wfm_header"
  /\ pc' = "header"
  /\ pos' = 0
  /\ idx' = 1
  /\ fileHdr' = Empty
  /\ points' = <<>>
  /\ dataIdx' = 0
  /\ channel' = 0
  /\ data' = Empty
  /\ scopeData' = Empty
  /\ result' = <<>>
  /\ err' = ""
  /\ UNCHANGED file

InitPair == Init /\ strict

NextPair ==
  \/ Next
  \/ CallLenient

SpecPair == InitPair /\ [][NextPair]_vars

\* ------------------------------------------------------------------------
\* Vocabulary of the properties
\* ------------------------------------------------------------------------
Terminal == pc \in {"done", "raised"}

\* the stream holds a whole header / _parseFile has returned the header
Full == Len(file) >= HeaderSize
HeaderDone == HeaderFields[Len(HeaderFields)].path \in DOMAIN fileHdr

\* field k of the header as it stands in the stream
FieldEnd(k) == Offset(k) + calcsize(HeaderFields[k].t)
RawField(k) == SubSeq(file, Offset(k) + 1, FieldEnd(k))
RuleViolated(k) ==
  /\ Len(file) >= FieldEnd(k)
  /\ HeaderFields[k].test # None
  /\ ~Compare(HeaderFields[k].t, unpack(HeaderFields[k].t, RawField(k)),
              HeaderFields[k].test[2], HeaderFields[k].test[3])
Scope(k) == HeaderFields[k].test[1]

\* payload size by the rule of the format: one byte a point for a written
\* analog channel, channel 2 taking channel 1's count when its own is 0,
\* two bytes a point for the written logic analyzer
W1 == fileHdr[<<"channel1", "written">>] = 1
W2 == fileHdr[<<"channel2", "written">>] = 1
WLA == fileHdr[<<"channelLA", "written">>] = 1
Count1 == fileHdr[<<"points1">>]
Count2 == IF W2 /\ fileHdr[<<"points2">>] = 0 THEN Count1 ELSE fileHdr[<<"points2">>]
ExpectedPayload ==
  (IF W1 THEN Count1 ELSE 0) + (IF W2 THEN Count2 ELSE 0) + (IF WLA THEN 2 * Count1 ELSE 0)
Remainder == (Len(file) - HeaderSize) - ExpectedPayload
TrailingFloat == SubSeq(file, HeaderSize + 1, Min(HeaderSize + 4, Len(file)))

\* ------------------------------------------------------------------------
\* The ways a stream with a complete, rule-abiding header can still be
\* defective (stated over the decoded header)
\* ------------------------------------------------------------------------
Alt == fileHdr[<<"trigMode">>] = 4
LengthDefect == Remainder \notin {0, 4}
AppendDefect == Remainder = 4 /\ Len(TrailingFloat) = 4 /\ ~Compare("f", TrailingFloat, ">=", 0)
PayloadDefect == \/ W2 /\ Count2 < 0
                 \/ ~W1 /\ W2 /\ Count1 # Count2
ModeDefect == ~Alt /\ fileHdr[<<"trigMode">>] # fileHdr[<<"trigHdr1", "mode">>]
EnumDefect(h, ignoreSource) ==
  LET v(name) == fileHdr[<<h, name>>]
  IN  \/ v("mode") > 4
      \/ ~ignoreSource /\ v("source") > 3
      \/ v("coupling") > 3
      \/ v("sweep") > 2
      \/ v("mode") = 0 /\ v("direct") > 2
      \/ v("mode") = 1 /\ v("pulseType") > 5
      \/ v("mode") = 2 /\ v("slopeType") > 5
      \/ v("mode") = 3 /\ (v("videoPol") > 1 \/ v("videoSync") > 3 \/ v("videoStd") > 1)
TriggerDefect(ignoreSource) ==
  IF Alt THEN \/ W1 /\ EnumDefect("trigHdr1", ignoreSource)
              \/ W2 /\ EnumDefect("trigHdr2", ignoreSource)
  ELSE EnumDefect("trigHdr1", FALSE)
RateDefect ==
  \/ W1 /\ FloatIsZero(fileHdr[<<"time1", "smpRate">>])
  \/ W2 /\ FloatIsZero(fileHdr[<<IF Alt THEN "time2" ELSE "time1", "smpRate">>])
  \/ WLA /\ FloatIsZero(IF Remainder = 4 /\ Len(TrailingFloat) = 4 THEN TrailingFloat
                         ELSE fileHdr[<<"time1", "smpRate">>])
ProbeDefect ==
  WLA /\ ~Bit(fileHdr[<<"channelLA", "enabledChannels">>], fileHdr[<<"channelLA", "activeCh">>])

\* ------------------------------------------------------------------------
\* Properties
\* ------------------------------------------------------------------------

\* C1: once the header has been read, a stream whose remaining byte count
\* minus the payload size is neither 0 nor 4 makes the call raise
\* FormatError, without a result, with no payload read and the cursor at
\* the end of the header.
C1_TrailingCountRejected ==
  (HeaderDone /\ pc # "detect" /\ Remainder \notin {0, 4})
    => /\ pc = "raised"
       /\ err = "FormatError"
       /\ result = <<>>
       /\ data = Empty
       /\ pos = HeaderSize

C1_Witness ==
  /\ HeaderDone /\ pc = "raised" /\ err = "FormatError"
  /\ WLA /\ Count1 = 1 /\ Remainder = -1

\* C2: once the revision step is over, with a remainder of 4 exactly the
\* four bytes after the header have been read as laSmpRate before the
\* payload and a written logic analyzer channel reports that float as its
\* samplerate; with a remainder of 0 nothing is read between header and
\* payload, laSmpRate is absent and a written logic analyzer channel
\* reports time1's smpRate.
RevisionStepOver == pc \notin {"header", "detect", "append"}

C2_RevisionDetection ==
  (HeaderDone /\ RevisionStepOver)
    => /\ Remainder = 4 =>
            /\ pos >= HeaderSize + 4
            /\ pc # "raised" =>
                 /\ <<"laSmpRate">> \in DOMAIN fileHdr
                 /\ fileHdr[<<"laSmpRate">>] = TrailingFloat
            /\ (pc = "data" /\ channel = 0) => pos = HeaderSize + 4
            /\ (result # <<>> /\ WLA) => result[1].channel["LA"].samplerate = TrailingFloat
       /\ Remainder = 0 =>
            /\ <<"laSmpRate">> \notin DOMAIN fileHdr
            /\ (pc = "data" /\ channel = 0) => pos = HeaderSize
            /\ (result # <<>> /\ WLA) =>
                 result[1].channel["LA"].samplerate = fileHdr[<<"time1", "smpRate">>]

\* C3: a violated `require` rule (of the header or of the appended
\* laSmpRate) raises FormatError in both modes; a violated `expect` rule
\* raises FormatError in strict mode; in lenient mode
\* no `expect` rule raises, so a stream whose only deviations are `expect`
\* fields is decoded.
C3_RuleSemantics ==
  /\ \A k \in RuleFields :
       (pos >= FieldEnd(k) /\ RuleViolated(k) /\ (Scope(k) = "require" \/ strict))
         => (pc = "raised" /\ err = "FormatError" /\ result = <<>>)
  /\ (HeaderDone /\ AppendDefect /\ pos >= HeaderSize + 4)
       => (pc = "raised" /\ err = "FormatError" /\ result = <<>>)
  /\ (pc = "raised" /\ ~strict /\ \E k \in RuleFields : RuleViolated(k) /\ Scope(k) = "expect")
       => IF HeaderDone
          THEN \/ LengthDefect \/ PayloadDefect \/ AppendDefect \/ ModeDefect
               \/ TriggerDefect(FALSE) \/ RateDefect \/ ProbeDefect
          ELSE \/ ~Full
               \/ \E k \in RuleFields : RuleViolated(k) /\ Scope(k) = "require"

C3_Witness ==
  /\ pc = "done" /\ ~strict /\ W1 /\ WLA
  /\ RuleViolated(8) /\ HeaderFields[8].path = <<"rollStop">>
  /\ result[1].channel["1"].nsamples = 1

\* C4: a stream whose first two bytes are not the little-endian image of
\* 0xa5a5 raises FormatError at once, in either mode: the cursor stands
\* after the two magic bytes and no field has been stored.
BadMagic == Len(file) >= 2 /\ file[1] + 256 * file[2] # 42405

C4_MagicRejectedFirst ==
  (BadMagic /\ pc # "header")
    => /\ pc = "raised"
       /\ err = "FormatError"
       /\ pos = 2
       /\ fileHdr = Empty
       /\ result = <<>>

C4_Witness ==
  /\ BadMagic /\ pc = "raised" /\ ~strict /\ pos = 2 /\ file[1] = 165

\* C5: a field that needs more bytes than the stream still holds makes the
\* record reader raise FormatError, without a result.
ShortRead == pc = "raised" /\ ~HeaderDone /\ Len(file) < FieldEnd(idx)

C5_ShortReadIsFormatError ==
  ShortRead => (err = "FormatError" /\ result = <<>>)

\* C6: a trigger-mode byte that is not 4 and differs from the mode byte of
\* trigger header 1, in a stream of valid header and correct length, makes
\* the call raise FormatError without a result.
C6_ModeMismatchIsFormatError ==
  (HeaderDone /\ Terminal /\ ModeDefect
     /\ ~LengthDefect /\ ~PayloadDefect /\ ~AppendDefect)
    => (pc = "raised" /\ err = "FormatError" /\ result = <<>>)

\* C7: in alternate-trigger mode every written analog channel gets its own
\* trigger description with the channel's name as source, whatever the raw
\* source byte, and no shared trigger description is produced.
C7_AlternateSourceForced ==
  (HeaderDone /\ Terminal /\ Alt
     /\ ~LengthDefect /\ ~PayloadDefect /\ ~AppendDefect
     /\ ~TriggerDefect(TRUE) /\ ~RateDefect /\ ~ProbeDefect)
    => /\ pc = "done"
       /\ "triggers" \notin DOMAIN result[1]
       /\ W1 => result[1].channel["1"].triggers.source = "CH1"
       /\ W2 => result[1].channel["2"].triggers.source = "CH2"

\* C8: in a stream of correct length every written analog channel reads as
\* many bytes as its point count, the written logic analyzer reads points1
\* 16-bit samples, no payload read fails, and on success the cursor is at
\* the end of the stream.
PastPayload == pc \in {"interpret", "triggers", "channel", "LA", "return", "done"}

C8_PayloadSizesAgree ==
  (HeaderDone /\ ~LengthDefect /\ ~AppendDefect /\ (W2 => Count2 >= 0))
    => /\ err \notin {"EOFError", "ValueError"}
       /\ PastPayload =>
            /\ W1 => Len(data["channel1"]) = Count1
            /\ W2 => Len(data["channel2"]) = Count2
            /\ WLA => Len(data["channelLA"]) = Count1
            /\ pos = Len(file)

\* C9: for a written logic analyzer channel enabledChannels lists, in
\* ascending order, exactly the probes whose bit is set in the mask,
\* byChannel has exactly those keys, and byChannel[c][i] tells whether bit c
\* of the i-th 16-bit little-endian sample of the stream is set.
BitSet(v, c) == v % (2 ^ (c + 1)) >= 2 ^ c

C9_LogicBitPlanes ==
  (result # <<>> /\ WLA)
    => LET la   == result[1].channel["LA"]
           mask == fileHdr[<<"channelLA", "enabledChannels">>]
           ec   == la.enabledChannels
           raw  == la.samples.raw
           base == pos - 2 * Count1
       IN  /\ \A i, j \in 1..Len(ec) : i < j => ec[i] < ec[j]
           /\ {ec[k] : k \in 1..Len(ec)} = {c \in 0..15 : BitSet(mask, c)}
           /\ DOMAIN la.samples.byChannel = {c \in 0..15 : BitSet(mask, c)}
           /\ \A i \in 1..Len(raw) :
                /\ raw[i] = file[base + 2 * i - 1] + 256 * file[base + 2 * i]
                /\ \A c \in DOMAIN la.samples.byChannel :
                     la.samples.byChannel[c][i] = BitSet(raw[i], c)

C9_Witness ==
  /\ pc = "done" /\ WLA
  /\ result[1].channel["LA"].enabledChannels = <<0, 3, 15>>
  /\ result[1].channel["LA"].samples.raw = <<9, 32769>>
  /\ result[1].channel["LA"].samples.byChannel[3] = <<TRUE, FALSE>>

\* C10: a written logic analyzer channel whose active probe is not enabled
\* in the mask makes the call raise FormatError without a result; when the
\* logic analyzer channel is not written the mismatch is no failure.
ProbeMismatch ==
  ~Bit(fileHdr[<<"channelLA", "enabledChannels">>], fileHdr[<<"channelLA", "activeCh">>])

C10_ProbeNotEnabledIsFormatError ==
  (HeaderDone /\ Terminal /\ ProbeMismatch
     /\ ~LengthDefect /\ ~PayloadDefect /\ ~AppendDefect /\ ~ModeDefect
     /\ ~TriggerDefect(FALSE) /\ ~RateDefect)
    => IF WLA THEN pc = "raised" /\ err = "FormatError" /\ result = <<>>
       ELSE pc = "done"

\* C11: an out-of-range enumerant in a trigger header that is decoded makes
\* the call raise FormatError without a result; enumerants that belong to a
\* mode other than the header's own are not decoded and fail nothing.
C11_EnumerantsAreFormatError ==
  (HeaderDone /\ Terminal
     /\ ~LengthDefect /\ ~PayloadDefect /\ ~AppendDefect /\ ~ModeDefect
     /\ ~RateDefect /\ ~ProbeDefect)
    => IF TriggerDefect(FALSE)
       THEN pc = "raised" /\ err = "FormatError" /\ result = <<>>
       ELSE pc = "done"

\* C12: for every written channel the raw samples of the result are the
\* first min(rollStop, N) of the N samples read when rollStop is nonzero and
\* all N when it is 0; nsamples is their number, and the volts, time and
\* per-probe sequences have nsamples elements.  A result with a nonzero
\* rollStop only exists in lenient mode.
Kept(n) ==
  IF fileHdr[<<"rollStop">>] = 0 \/ fileHdr[<<"rollStop">>] > n
  THEN n ELSE fileHdr[<<"rollStop">>]

RollingOK(d, read, analog) ==
  /\ d.samples.raw = [k \in 1..Kept(Len(read)) |-> read[k]]
  /\ d.nsamples = Kept(Len(read))
  /\ Len(d.samples.time) = d.nsamples
  /\ analog => Len(d.samples.volts) = d.nsamples
  /\ ~analog => \A c \in DOMAIN d.samples.byChannel :
                  Len(d.samples.byChannel[c]) = d.nsamples

C12_RollingTruncation ==
  result # <<>>
    => /\ W1 => RollingOK(result[1].channel["1"], data["channel1"], TRUE)
       /\ W2 => RollingOK(result[1].channel["2"], data["channel2"], TRUE)
       /\ WLA => RollingOK(result[1].channel["LA"], data["channelLA"], FALSE)
       /\ fileHdr[<<"rollStop">>] # 0 => ~strict

C12_Witness ==
  /\ pc = "done" /\ ~strict /\ W1 /\ WLA
  /\ fileHdr[<<"rollStop">>] = 1
  /\ Len(data["channel1"]) = 2 /\ Len(data["channelLA"]) = 2
  /\ result[1].channel["1"].nsamples = 1
  /\ result[1].channel["LA"].nsamples = 1
  /\ result[1].channel["1"].samples.raw = <<data["channel1"][1]>>

\* the field of the record at which the reader stopped
StoppedAt == RecordFields[descriptionName][idx]

\* C13: the strict flag of the caller reaches every field of the record,
\* nested ones included: a lenient read never fails on a violated `expect`
\* rule, at the top level or below it.
C13_LenientReachesNested ==
  (pc = "raised" /\ err = "FormatError" /\ ~strict)
    => StoppedAt.test[1] # "expect"

\* C14: a stream that passes every header rule, has 0 or 4 bytes besides
\* header and payload, a consistent trigger mode and in-range enumerants
\* decodes to a result; in particular the division 1 / sampleRate of a
\* written channel never fails for a sample rate the rules accept.
C14_ValidatedFileDecodes ==
  (HeaderDone /\ Terminal
     /\ ~LengthDefect /\ ~PayloadDefect /\ ~AppendDefect /\ ~ModeDefect
     /\ ~TriggerDefect(FALSE) /\ ~ProbeDefect)
    => pc = "done" /\ result # <<>> /\ err # "ZeroDivisionError"

\* C15: lenient mode only widens the accepted set: when the strict call
\* on a stream returned a result, the lenient call on the same stream
\* returns an equal result, and when the lenient call fails the strict call
\* had failed as well.
C15_LenientOnlyWidens ==
  (first # <<>> /\ pc \in {"done", "raised"})
    => /\ first[1].result # <<>> => pc = "done" /\ result = first[1].result
       /\ pc = "raised" => first[1].result = <<>> /\ first[1].err # ""

C15_Witness ==
  /\ first # <<>> /\ pc = "done"
  /\ first[1].result # <<>> /\ result = first[1].result
  /\ W1 /\ WLA
  /\ Len(result[1].channel["1"].samples.raw) > 0

====
